---- MODULE Spec2Model ----
(***************************************************************************)
(* Rate-distortion sweeps of reconstructing_eae_kodak.py.                  *)
(*                                                                         *)
(* The script's driver calls vary_gamma_fix_bin_widths once and fix_gamma  *)
(* twice, saving the two matrices each call returns.  The state is the     *)
(* driver's position, the process-wide default computation graph of        *)
(* TensorFlow, the open session, the local variables of the sweep          *)
(* function that is running, and the files the driver has saved.           *)
(*                                                                         *)
(* Numbers are integers: a latent value, a mean and a bin width are        *)
(* counted in units of 0.5, so 0.5 is 1 and 1.0 is 2.  The value an        *)
(* external routine returns (rate_3d, psnr_2d, the decoder, the lossless   *)
(* coder) is the tuple of the routine's name and the arguments it was      *)
(* called with.                                                            *)
(***************************************************************************)
EXTENDS Integers, Sequences, FiniteSets, TLC

\* ---------------------------------------------------------------- bounds
\* a sweep has at most MaxPoints configurations, the test set at most
\* MaxImages images, a latent NbMaps feature maps
MaxPoints == 2
MaxImages == 2
NbMaps == 2

\* ------------------------------------------------------- driver literals
\* bin_width_init of the two dictionaries (1. and 0.5, in units of 0.5), and
\* the training index and scaling coefficient of the single autoencoder
BinWidthInitFixed == 2
BinWidthInitLearned == 1
FixIdxTraining == 10
FixGammaScaling == 10000

\* what the scaling coefficients, training indices and multipliers of a call
\* are drawn from
Gammas == {10000, 12000}
Idxs == {10}
Multipliers == {1, 2}

Maps == 1..NbMaps

SeqsUpTo(S, n) == UNION {[1..k -> S] : k \in 0..n}

\* -------------------------------------------------------------- helpers
Abs(x) == IF x < 0 THEN -x ELSE x

Sign(x) == IF x < 0 THEN -1 ELSE 1

\* A matrix cell is the sequence of the values stored to it, in the order of
\* the stores: numpy's value of the cell is the last of them, and the 0.0 of
\* numpy.zeros((n, m)) when nothing was stored.
Zeros(n, m) == [a \in 1..n |-> [b \in 1..m |-> <<>>]]

\* the checkpoint the paths of a call name: suffix and training index
Ckpt(learned, bwi, gamma, idx) ==
    [are_bin_widths_learned |-> learned, bin_width_init |-> bwi,
     gamma_scaling |-> gamma, idx_training |-> idx]

NoCkpt == Ckpt(FALSE, 0, 0, 0)

\* the luminance images: image j is the sample 16 + 40 * j
Images(n) == [b \in 1..n |-> 16 + 40 * b]

\* ---------------------------------------------- external collaborators
\* encoder of a restored checkpoint, per image and feature map
EncodeMap(ck, pixel, c) ==
    (((pixel \div 8) + 3 * c + ck.idx_training + (ck.gamma_scaling \div 1000)
        + ck.bin_width_init) % 13) - 6

encode_mini_batches(ck, ref) ==
    [b \in DOMAIN ref |-> [c \in Maps |-> EncodeMap(ck, ref[b], c)]]

\* bin widths at the end of the training: the initial ones when they were
\* fixed, trained per map when they were learned
get_bin_widths(ck) ==
    [c \in Maps |-> IF ck.are_bin_widths_learned
                    THEN ck.bin_width_init + (c % 2)
                    ELSE ck.bin_width_init]

\* map_mean.npy of a checkpoint's statistics folder
map_mean(ck) == [c \in Maps |-> 1 + ((c + ck.bin_width_init) % 2)]

\* round to the nearest integer, a tie away from zero
RoundHalfAway(x, b) == Sign(x) * ((2 * Abs(x) + b) \div (2 * b))

quantize_per_map(y, bw) ==
    [b \in DOMAIN y |-> [c \in Maps |-> RoundHalfAway(y[b][c], bw[c]) * bw[c]]]

Decode(ck, fed) == [b \in DOMAIN fed |-> <<"decode", ck, fed[b]>>]

cast_bt601(rec) == [b \in DOMAIN rec |-> <<"cast_bt601", rec[b]>>]

rate_3d(q, bw) == <<"rate_3d", q, bw>>

psnr_2d(ref, rec) == <<"psnr_2d", ref, rec>>

rescale_compress_lossless_maps(q, bw, probs, exc) ==
    <<"rescale_compress_lossless_maps", q, bw, probs, exc>>

\* the bit count is recorded undivided
Mut_LosslessRate(nb_bits) == nb_bits

\* float(nb_bits)/(h_in*w_in), of line 192
LosslessRate(nb_bits) == <<"div", nb_bits, "h_in*w_in">>

\* one call of a rate estimator, for image b of configuration a
Called(a, b, call) == [i |-> a, j |-> b, call |-> call]

\* ------------------------------------------------------------- the code
tile_map_mean(mean, n) == [b \in 1..n |-> mean]

\* the mean is not subtracted
Mut_Sub(y, t) == y

\* y - t, of line 163
Sub(y, t) == [b \in DOMAIN y |-> [c \in Maps |-> y[b][c] - t[b][c]]]

\* the mean is not added back
Mut_Add(y, t) == y

\* y + t, of line 171
Add(y, t) == [b \in DOMAIN y |-> [c \in Maps |-> y[b][c] + t[b][c]]]

\* the multiplier is left out
Mut_BinWidthsTest(multiplier, bw) == bw

\* multiplier*bin_widths, of line 169
BinWidthsTest(multiplier, bw) == [c \in Maps |-> multiplier * bw[c]]

\* the reset left out: the graph keeps its models
Mut_reset_default_graph(g) == g

\* tf.reset_default_graph()
reset_default_graph(g) == {}

\* the assertion checks one direction only
Mut_CountsMatch(idxs, gammas) == Len(idxs) >= Len(gammas)

\* the condition of the assertion of line 288
VG_CountsMatch(idxs, gammas) == Len(idxs) = Len(gammas)

\* the column index left out: mat[a, :] = v
Mut_SetItemRow(mat, a, b, v) == [mat EXCEPT ![a] = [c \in DOMAIN @ |-> Append(@[c], v)]]

\* mat[a, b] = v
SetItem(mat, a, b, v) == [mat EXCEPT ![a][b] = Append(@, v)]

\* the loop stops one index early
Mut_InRange(k, n) == k < n

\* range(n): the loop goes on while the index is at most n
InRange(k, n) == k <= n

\* the driver swallows the exception and stays where it was
Mut_PropagateIgnore(stage) == stage

\* the driver catches the exception and saves what the sweep has filled in
Mut_PropagateSave(stage) ==
    IF stage = "in_vary" THEN "save_vary"
    ELSE IF stage = "in_fix_learn" THEN "save_fix_learn" ELSE "save_fix_fix"

\* the driver has no handler: an exception ends the script
Propagate(stage) == "aborted"

Model(kind, restored) == [kind |-> kind, restored |-> restored]

VARIABLES
    driver_pc,          \* where the driver is
    code_lossless,      \* args.code_lossless
    reference_uint8,    \* the luminance images
    saved,              \* the files numpy.save has written
    pc,                 \* where the running sweep function is
    raised,             \* the exception that left the sweep function, or <<>>
    graph,              \* the models built in the default graph
    sess,               \* the models with an open session
    args,               \* the arguments of the running call
    loc,                \* its local tensors and paths
    rate, psnr,         \* its two matrices
    i, j,               \* its loop indices
    rate_calls          \* the calls it has made to a rate estimator

vars == <<driver_pc, code_lossless, reference_uint8, saved, pc, raised, graph,
          sess, args, loc, rate, psnr, i, j, rate_calls>>

env == <<code_lossless, reference_uint8, saved, rate_calls>>

matrices == <<rate, psnr>>

nb_images == Len(reference_uint8)

NoArgs ==
    [bin_width_init |-> 0, idxs_training |-> <<>>, gammas_scaling |-> <<>>,
     multipliers |-> <<>>, idx_training |-> 0, gamma_scaling |-> 0,
     are_bin_widths_learned |-> FALSE, is_lossless |-> FALSE]

\* a call starts with no local assigned
NoLocals ==
    [ckpt |-> NoCkpt, y_float32 |-> <<>>, bin_widths |-> <<>>,
     tiled_map_mean |-> <<>>, idx_map_exception |-> <<>>,
     centered_y_float32 |-> <<>>, bin_widths_test |-> <<>>,
     centered_quantized_y_float32 |-> <<>>,
     off_centered_quantized_y_float32 |-> <<>>,
     quantized_y_float32 |-> <<>>, reconstruction_uint8 |-> <<>>]

Init ==
    /\ driver_pc = "call_vary"
    /\ code_lossless \in BOOLEAN
    /\ reference_uint8 \in {Images(n) : n \in 1..MaxImages}
    /\ saved = {}
    /\ pc = "idle"
    /\ raised = <<>>
    /\ graph = {}
    /\ sess = {}
    /\ args = NoArgs
    /\ loc = NoLocals
    /\ rate = <<>>
    /\ psnr = <<>>
    /\ i = 0
    /\ j = 0
    /\ rate_calls = <<>>

\* an exception leaves the with block, which closes its session, then the
\* sweep function, and reaches the driver
Throw(exc) ==
    /\ pc' = "raised"
    /\ raised' = exc
    /\ sess' = {}
    /\ driver_pc' = Propagate(driver_pc)
    /\ UNCHANGED <<code_lossless, reference_uint8, saved, graph, args, loc, matrices, i, j>>

\* ------------------------------------------------------------ the driver
MainCallVary ==
    /\ driver_pc = "call_vary"
    /\ \E idxs \in SeqsUpTo(Idxs, MaxPoints), gammas \in SeqsUpTo(Gammas, MaxPoints) :
        args' = [NoArgs EXCEPT !.bin_width_init = BinWidthInitFixed,
                               !.idxs_training = idxs,
                               !.gammas_scaling = gammas]
    /\ driver_pc' = "in_vary"
    /\ pc' = "vg_begin"
    /\ loc' = NoLocals
    /\ rate' = <<>>
    /\ psnr' = <<>>
    /\ i' = 0
    /\ j' = 0
    /\ rate_calls' = <<>>
    /\ UNCHANGED <<code_lossless, reference_uint8, saved, raised, graph, sess>>

\* ------------------------------------------- vary_gamma_fix_bin_widths
VG_nb_points == Len(args.gammas_scaling)

\* lines 287-291: the assertion, then the two matrices
VG_Begin ==
    /\ pc = "vg_begin"
    /\ IF VG_CountsMatch(args.idxs_training, args.gammas_scaling)
       THEN /\ rate' = Zeros(VG_nb_points, nb_images)
            /\ psnr' = Zeros(VG_nb_points, nb_images)
            /\ i' = 1
            /\ pc' = "vg_for_i"
            /\ UNCHANGED <<driver_pc, env, raised, graph, sess, args, loc, j>>
       ELSE Throw(<<"AssertionError">>) /\ UNCHANGED rate_calls

\* lines 292-299: the next scaling coefficient and its paths, or the return
VG_ForI ==
    /\ pc = "vg_for_i"
    /\ IF InRange(i, VG_nb_points)
       THEN IF i \in DOMAIN args.idxs_training
            THEN /\ loc' = [loc EXCEPT !.ckpt = Ckpt(FALSE, args.bin_width_init,
                                                     args.gammas_scaling[i],
                                                     args.idxs_training[i])]
                 /\ pc' = "vg_create_enc"
                 /\ UNCHANGED <<driver_pc, env, raised, graph, sess, args, matrices, i, j>>
            ELSE Throw(<<"IndexError">>) /\ UNCHANGED rate_calls
       ELSE /\ pc' = "vg_return"
            /\ UNCHANGED <<driver_pc, env, raised, graph, sess, args, loc, matrices, i, j>>

\* lines 303-309
VG_CreateEncoder ==
    /\ pc = "vg_create_enc"
    /\ graph' = graph \cup {Model("EntropyAutoencoder", <<>>)}
    /\ pc' = "vg_open_enc"
    /\ UNCHANGED <<driver_pc, env, raised, sess, args, loc, matrices, i, j>>

\* lines 310-311
VG_OpenEncoder ==
    /\ pc = "vg_open_enc"
    /\ sess' = sess \cup {"EntropyAutoencoder"}
    /\ graph' = (graph \ {Model("EntropyAutoencoder", <<>>)})
                    \cup {Model("EntropyAutoencoder", <<loc.ckpt>>)}
    /\ pc' = "vg_encode"
    /\ UNCHANGED <<driver_pc, env, raised, args, loc, matrices, i, j>>

\* the checkpoint the resident model of a kind was restored from
Restored(kind) == (CHOOSE m \in graph : m.kind = kind /\ m.restored # <<>>).restored[1]

\* lines 312-315
VG_Encode ==
    /\ pc = "vg_encode"
    /\ loc' = [loc EXCEPT !.y_float32 =
                  encode_mini_batches(Restored("EntropyAutoencoder"), reference_uint8)]
    /\ pc' = "vg_get_bin_widths"
    /\ UNCHANGED <<driver_pc, env, raised, graph, sess, args, matrices, i, j>>

\* line 319, and the end of the with block of line 310
VG_GetBinWidths ==
    /\ pc = "vg_get_bin_widths"
    /\ loc' = [loc EXCEPT !.bin_widths = get_bin_widths(Restored("EntropyAutoencoder"))]
    /\ sess' = sess \ {"EntropyAutoencoder"}
    /\ pc' = "vg_reset_enc"
    /\ UNCHANGED <<driver_pc, env, raised, graph, args, matrices, i, j>>

\* line 322
VG_ResetEncoder ==
    /\ pc = "vg_reset_enc"
    /\ graph' = reset_default_graph(graph)
    /\ pc' = "vg_create_dec"
    /\ UNCHANGED <<driver_pc, env, raised, sess, args, loc, matrices, i, j>>

\* lines 326-330
VG_CreateDecoder ==
    /\ pc = "vg_create_dec"
    /\ graph' = graph \cup {Model("IsolatedDecoder", <<>>)}
    /\ loc' = [loc EXCEPT !.quantized_y_float32 =
                  quantize_per_map(loc.y_float32, loc.bin_widths)]
    /\ pc' = "vg_open_dec"
    /\ UNCHANGED <<driver_pc, env, raised, sess, args, matrices, i, j>>

\* the decoder is restored from the checkpoint of the first scaling
\* coefficient: its path is not the one of the configuration
Mut_VG_OpenDecoder ==
    /\ pc = "vg_open_dec"
    /\ sess' = sess \cup {"IsolatedDecoder"}
    /\ graph' = (graph \ {Model("IsolatedDecoder", <<>>)})
                    \cup {Model("IsolatedDecoder",
                                <<Ckpt(FALSE, args.bin_width_init, args.gammas_scaling[1],
                                       args.idxs_training[1])>>)}
    /\ pc' = "vg_decode"
    /\ UNCHANGED <<driver_pc, env, raised, args, loc, matrices, i, j>>

\* lines 331-332
VG_OpenDecoder ==
    /\ pc = "vg_open_dec"
    /\ sess' = sess \cup {"IsolatedDecoder"}
    /\ graph' = (graph \ {Model("IsolatedDecoder", <<>>)})
                    \cup {Model("IsolatedDecoder", <<loc.ckpt>>)}
    /\ pc' = "vg_decode"
    /\ UNCHANGED <<driver_pc, env, raised, args, loc, matrices, i, j>>

\* the with block of line 331 is not left: the session stays open over the
\* loop on the images
Mut_VG_Decode ==
    /\ pc = "vg_decode"
    /\ loc' = [loc EXCEPT !.reconstruction_uint8 =
                  Decode(Restored("IsolatedDecoder"), loc.quantized_y_float32)]
    /\ pc' = "vg_reset_dec"
    /\ UNCHANGED <<driver_pc, env, raised, graph, sess, args, matrices, i, j>>

\* lines 333-336, and the end of the with block of line 331
VG_Decode ==
    /\ pc = "vg_decode"
    /\ loc' = [loc EXCEPT !.reconstruction_uint8 =
                  Decode(Restored("IsolatedDecoder"), loc.quantized_y_float32)]
    /\ sess' = sess \ {"IsolatedDecoder"}
    /\ pc' = "vg_reset_dec"
    /\ UNCHANGED <<driver_pc, env, raised, graph, args, matrices, i, j>>

\* lines 339-343
VG_ResetDecoder ==
    /\ pc = "vg_reset_dec"
    /\ graph' = reset_default_graph(graph)
    /\ loc' = [loc EXCEPT !.reconstruction_uint8 = cast_bt601(loc.reconstruction_uint8)]
    /\ j' = 1
    /\ pc' = "vg_for_j"
    /\ UNCHANGED <<driver_pc, env, raised, sess, args, matrices, i>>

\* line 344: the next image, or the next scaling coefficient
VG_ForJ ==
    /\ pc = "vg_for_j"
    /\ IF InRange(j, nb_images)
       THEN /\ pc' = "vg_rate"
            /\ i' = i
       ELSE /\ pc' = "vg_for_i"
            /\ i' = i + 1
    /\ UNCHANGED <<driver_pc, env, raised, graph, sess, args, loc, matrices, j>>

\* lines 345-348
VG_RateCall == rate_3d(loc.quantized_y_float32[j], loc.bin_widths)

VG_Rate ==
    /\ pc = "vg_rate"
    /\ rate_calls' = Append(rate_calls, Called(i, j, VG_RateCall))
    /\ rate' = SetItem(rate, i, j, VG_RateCall)
    /\ pc' = "vg_psnr"
    /\ UNCHANGED <<driver_pc, code_lossless, reference_uint8, saved, raised, graph, sess,
                   args, loc, psnr, i, j>>

\* lines 349-350
VG_Psnr ==
    /\ pc = "vg_psnr"
    /\ psnr' = SetItem(psnr, i, j, psnr_2d(reference_uint8[j], loc.reconstruction_uint8[j]))
    /\ pc' = "vg_export"
    /\ UNCHANGED <<driver_pc, env, raised, graph, sess, args, loc, rate, i, j>>

\* lines 352-357
VG_Export ==
    /\ pc = "vg_export"
    /\ j' = j + 1
    /\ pc' = "vg_for_j"
    /\ UNCHANGED <<driver_pc, env, raised, graph, sess, args, loc, matrices, i>>

\* line 358
VG_Return ==
    /\ pc = "vg_return"
    /\ pc' = "idle"
    /\ driver_pc' = "save_vary"
    /\ UNCHANGED <<env, raised, graph, sess, args, loc, matrices, i, j>>

\* ------------------------------------------------------------ fix_gamma
FG_nb_points == Len(args.multipliers)

\* lines 107-123: the two matrices and the paths of the single checkpoint
FG_Begin ==
    /\ pc = "fg_begin"
    /\ rate' = Zeros(FG_nb_points, nb_images)
    /\ psnr' = Zeros(FG_nb_points, nb_images)
    /\ loc' = [loc EXCEPT !.ckpt = Ckpt(args.are_bin_widths_learned, args.bin_width_init,
                                        args.gamma_scaling, args.idx_training)]
    /\ pc' = "fg_create_enc"
    /\ UNCHANGED <<driver_pc, env, raised, graph, sess, args, i, j>>

\* lines 125-131
FG_CreateEncoder ==
    /\ pc = "fg_create_enc"
    /\ graph' = graph \cup {Model("EntropyAutoencoder", <<>>)}
    /\ pc' = "fg_open_enc"
    /\ UNCHANGED <<driver_pc, env, raised, sess, args, loc, matrices, i, j>>

\* lines 132-133
FG_OpenEncoder ==
    /\ pc = "fg_open_enc"
    /\ sess' = sess \cup {"EntropyAutoencoder"}
    /\ graph' = (graph \ {Model("EntropyAutoencoder", <<>>)})
                    \cup {Model("EntropyAutoencoder", <<loc.ckpt>>)}
    /\ pc' = "fg_encode"
    /\ UNCHANGED <<driver_pc, env, raised, args, loc, matrices, i, j>>

\* lines 134-137
FG_Encode ==
    /\ pc = "fg_encode"
    /\ loc' = [loc EXCEPT !.y_float32 =
                  encode_mini_batches(Restored("EntropyAutoencoder"), reference_uint8)]
    /\ pc' = "fg_get_bin_widths"
    /\ UNCHANGED <<driver_pc, env, raised, graph, sess, args, matrices, i, j>>

\* line 141, and the end of the with block of line 132
FG_GetBinWidths ==
    /\ pc = "fg_get_bin_widths"
    /\ loc' = [loc EXCEPT !.bin_widths = get_bin_widths(Restored("EntropyAutoencoder"))]
    /\ sess' = sess \ {"EntropyAutoencoder"}
    /\ pc' = "fg_reset_enc"
    /\ UNCHANGED <<driver_pc, env, raised, graph, args, matrices, i, j>>

\* line 144
FG_ResetEncoder ==
    /\ pc = "fg_reset_enc"
    /\ graph' = reset_default_graph(graph)
    /\ pc' = "fg_create_dec"
    /\ UNCHANGED <<driver_pc, env, raised, sess, args, loc, matrices, i, j>>

\* lines 147-150
FG_CreateDecoder ==
    /\ pc = "fg_create_dec"
    /\ graph' = graph \cup {Model("IsolatedDecoder", <<>>)}
    /\ pc' = "fg_load_stats"
    /\ UNCHANGED <<driver_pc, env, raised, sess, args, loc, matrices, i, j>>

\* lines 155-163: the statistics of the checkpoint, then the centering
FG_LoadStats ==
    /\ pc = "fg_load_stats"
    /\ LET tiled == tile_map_mean(map_mean(loc.ckpt), nb_images)
       IN  loc' = [loc EXCEPT
                      !.tiled_map_mean = tiled,
                      !.idx_map_exception =
                          IF args.is_lossless THEN <<"idx_map_exception", loc.ckpt>>
                                              ELSE <<>>,
                      !.centered_y_float32 = Sub(loc.y_float32, tiled)]
    /\ pc' = "fg_open_dec"
    /\ UNCHANGED <<driver_pc, env, raised, graph, sess, args, matrices, i, j>>

\* lines 164-165
FG_OpenDecoder ==
    /\ pc = "fg_open_dec"
    /\ sess' = sess \cup {"IsolatedDecoder"}
    /\ graph' = (graph \ {Model("IsolatedDecoder", <<>>)})
                    \cup {Model("IsolatedDecoder", <<loc.ckpt>>)}
    /\ i' = 1
    /\ pc' = "fg_for_i"
    /\ UNCHANGED <<driver_pc, env, raised, args, loc, matrices, j>>

\* line 166: the next multiplier, or the end of the with block of line 164
FG_ForI ==
    /\ pc = "fg_for_i"
    /\ IF InRange(i, FG_nb_points)
       THEN /\ pc' = "fg_quantize"
            /\ sess' = sess
       ELSE /\ pc' = "fg_return"
            /\ sess' = sess \ {"IsolatedDecoder"}
    /\ UNCHANGED <<driver_pc, env, raised, graph, args, loc, matrices, i, j>>

\* the bin widths are scaled in place: bin_widths *= multiplier
Mut_FG_Quantize ==
    /\ pc = "fg_quantize"
    /\ LET bwt == BinWidthsTest(args.multipliers[i], loc.bin_widths)
           cq == quantize_per_map(loc.centered_y_float32, bwt)
       IN  loc' = [loc EXCEPT
                      !.bin_widths = bwt,
                      !.bin_widths_test = bwt,
                      !.centered_quantized_y_float32 = cq,
                      !.off_centered_quantized_y_float32 = Add(cq, loc.tiled_map_mean)]
    /\ pc' = "fg_decode"
    /\ UNCHANGED <<driver_pc, env, raised, graph, sess, args, matrices, i, j>>

\* lines 167-171
FG_Quantize ==
    /\ pc = "fg_quantize"
    /\ LET bwt == BinWidthsTest(args.multipliers[i], loc.bin_widths)
           cq == quantize_per_map(loc.centered_y_float32, bwt)
       IN  loc' = [loc EXCEPT
                      !.bin_widths_test = bwt,
                      !.centered_quantized_y_float32 = cq,
                      !.off_centered_quantized_y_float32 = Add(cq, loc.tiled_map_mean)]
    /\ pc' = "fg_decode"
    /\ UNCHANGED <<driver_pc, env, raised, graph, sess, args, matrices, i, j>>

\* lines 172-185
FG_Decode ==
    /\ pc = "fg_decode"
    /\ loc' = [loc EXCEPT !.reconstruction_uint8 =
                  cast_bt601(Decode(Restored("IsolatedDecoder"),
                                    loc.off_centered_quantized_y_float32))]
    /\ j' = 1
    /\ pc' = "fg_for_j"
    /\ UNCHANGED <<driver_pc, env, raised, graph, sess, args, matrices, i>>

\* line 186: the next image, or the next multiplier
FG_ForJ ==
    /\ pc = "fg_for_j"
    /\ IF InRange(j, nb_images)
       THEN /\ pc' = "fg_rate"
            /\ i' = i
       ELSE /\ pc' = "fg_for_i"
            /\ i' = i + 1
    /\ UNCHANGED <<driver_pc, env, raised, graph, sess, args, loc, matrices, j>>

\* the estimator of the other strategy is called when the coder is selected
Mut_SelectEstimator(is_lossless, q, bw, probs, exc) == rate_3d(q, bw)

\* lines 187-197: the call of the estimator the flag selects
SelectEstimator(is_lossless, q, bw, probs, exc) ==
    IF is_lossless THEN rescale_compress_lossless_maps(q, bw, probs, exc)
                   ELSE rate_3d(q, bw)

FG_RateCall ==
    SelectEstimator(args.is_lossless, loc.centered_quantized_y_float32[j],
                    loc.bin_widths_test,
                    <<"binary_probabilities", loc.ckpt, args.multipliers[i]>>,
                    loc.idx_map_exception)

\* lines 187-197: the rate of the selected strategy
FG_Rate ==
    /\ pc = "fg_rate"
    /\ rate_calls' = Append(rate_calls, Called(i, j, FG_RateCall))
    /\ rate' = SetItem(rate, i, j,
                  IF args.is_lossless THEN LosslessRate(FG_RateCall) ELSE FG_RateCall)
    /\ pc' = "fg_psnr"
    /\ UNCHANGED <<driver_pc, code_lossless, reference_uint8, saved, raised, graph, sess,
                   args, loc, psnr, i, j>>

\* lines 198-199
FG_Psnr ==
    /\ pc = "fg_psnr"
    /\ psnr' = SetItem(psnr, i, j, psnr_2d(reference_uint8[j], loc.reconstruction_uint8[j]))
    /\ pc' = "fg_export"
    /\ UNCHANGED <<driver_pc, env, raised, graph, sess, args, loc, rate, i, j>>

\* lines 201-206
FG_Export ==
    /\ pc = "fg_export"
    /\ j' = j + 1
    /\ pc' = "fg_for_j"
    /\ UNCHANGED <<driver_pc, env, raised, graph, sess, args, loc, matrices, i>>

\* lines 209-210
FG_Return ==
    /\ pc = "fg_return"
    /\ graph' = reset_default_graph(graph)
    /\ pc' = "idle"
    /\ driver_pc' = IF driver_pc = "in_fix_learn" THEN "save_fix_learn" ELSE "save_fix_fix"
    /\ UNCHANGED <<env, raised, sess, args, loc, matrices, i, j>>

\* --------------------------------------------------------------- failure
\* the steps that call a component which can fail: a model is built or
\* restored, run, the statistics are read, a rate or a PSNR is computed, an
\* image is written
Failable ==
    {"vg_create_enc", "vg_open_enc", "vg_encode", "vg_open_dec", "vg_decode",
     "vg_rate", "vg_psnr", "vg_export",
     "fg_create_enc", "fg_open_enc", "fg_encode", "fg_load_stats", "fg_open_dec",
     "fg_decode", "fg_rate", "fg_psnr", "fg_export"}

\* the component raises in place of returning: nothing catches it.  A rate
\* estimator that raises was called
Raise ==
    /\ pc \in Failable
    /\ Throw(<<"Error", pc>>)
    /\ rate_calls' = IF pc = "vg_rate" THEN Append(rate_calls, Called(i, j, VG_RateCall))
                     ELSE IF pc = "fg_rate"
                          THEN Append(rate_calls, Called(i, j, FG_RateCall))
                          ELSE rate_calls

\* ------------------------------------------------------ the driver, on
\* the multipliers of a fix_gamma call: the two dictionaries of the driver
\* hold the same list (lines 411 and 417), so the second call gets the list
\* of the first
MultipliersOf(stage) ==
    IF stage = "call_fix_learn" THEN SeqsUpTo(Multipliers, MaxPoints)
                                ELSE {args.multipliers}

\* lines 481-491 and 497-507
MainCallFix ==
    /\ driver_pc \in {"call_fix_learn", "call_fix_fix"}
    /\ \E ms \in MultipliersOf(driver_pc) :
        args' = [NoArgs EXCEPT
                    !.bin_width_init = IF driver_pc = "call_fix_learn"
                                       THEN BinWidthInitLearned ELSE BinWidthInitFixed,
                    !.multipliers = ms,
                    !.idx_training = FixIdxTraining,
                    !.gamma_scaling = FixGammaScaling,
                    !.are_bin_widths_learned = (driver_pc = "call_fix_learn"),
                    !.is_lossless = code_lossless]
    /\ driver_pc' = IF driver_pc = "call_fix_learn" THEN "in_fix_learn" ELSE "in_fix_fix"
    /\ pc' = "fg_begin"
    /\ loc' = NoLocals
    /\ rate' = <<>>
    /\ psnr' = <<>>
    /\ i' = 0
    /\ j' = 0
    /\ rate_calls' = <<>>
    /\ UNCHANGED <<code_lossless, reference_uint8, saved, raised, graph, sess>>

\* the name of the pair of files a sweep's matrices are saved to
FileOf(stage) ==
    IF stage = "save_vary" THEN <<"vary_gamma_fix_bin_widths">>
    ELSE IF stage = "save_fix_learn"
         THEN <<"fix_gamma_learn_bin_widths", IF code_lossless THEN "lossless" ELSE "approx">>
         ELSE <<"fix_gamma_fix_bin_widths", IF code_lossless THEN "lossless" ELSE "approx">>

\* lines 469-472, 492-495 and 508-511
MainSave ==
    /\ driver_pc \in {"save_vary", "save_fix_learn", "save_fix_fix"}
    /\ saved' = saved \cup {[file |-> FileOf(driver_pc), rate |-> rate, psnr |-> psnr]}
    /\ driver_pc' = IF driver_pc = "save_vary" THEN "call_fix_learn"
                    ELSE IF driver_pc = "save_fix_learn" THEN "call_fix_fix"
                    ELSE "done"
    /\ UNCHANGED <<code_lossless, reference_uint8, pc, raised, graph, sess, args, loc,
                   matrices, i, j, rate_calls>>

Next ==
    \/ MainCallVary
    \/ VG_Begin
    \/ VG_ForI
    \/ VG_CreateEncoder
    \/ VG_OpenEncoder
    \/ VG_Encode
    \/ VG_GetBinWidths
    \/ VG_ResetEncoder
    \/ VG_CreateDecoder
    \/ VG_OpenDecoder
    \/ VG_Decode
    \/ VG_ResetDecoder
    \/ VG_ForJ
    \/ VG_Rate
    \/ VG_Psnr
    \/ VG_Export
    \/ VG_Return
    \/ MainCallFix
    \/ FG_Begin
    \/ FG_CreateEncoder
    \/ FG_OpenEncoder
    \/ FG_Encode
    \/ FG_GetBinWidths
    \/ FG_ResetEncoder
    \/ FG_CreateDecoder
    \/ FG_LoadStats
    \/ FG_OpenDecoder
    \/ FG_ForI
    \/ FG_Quantize
    \/ FG_Decode
    \/ FG_ForJ
    \/ FG_Rate
    \/ FG_Psnr
    \/ FG_Export
    \/ FG_Return
    \/ Raise
    \/ MainSave

Spec == Init /\ [][Next]_vars

\* ================================================================ claims
Resident == {m.kind : m \in graph} \cup sess

\* C1: at every point of a run at most one model is resident: the default
\* graph holds at most one model, a session is open only on the model the
\* graph holds, so the encoder's session is closed and its graph destroyed
\* before a decoder is built, and a decoder is torn down before the next
\* encoder is built.
C1_OneResident ==
    /\ Cardinality(graph) <= 1
    /\ Cardinality(Resident) <= 1

\* the encoder of the second scaling coefficient is alone in the graph, its
\* session open, after the first coefficient's decoder was resident
C1_Witness ==
    /\ pc = "vg_encode"
    /\ i = 2
    /\ graph = {Model("EntropyAutoencoder", <<loc.ckpt>>)}
    /\ sess = {"EntropyAutoencoder"}
    /\ rate[1][1] # <<>>

\* C2: the release of a resident model, the session closed and the graph
\* destroyed, has run on every exit path of a sweep function: when an
\* exception has left the function no model remains in the default graph.
C2_ReleasedOnEveryExit ==
    (pc = "raised") => (graph = {} /\ sess = {})

\* C3: with a number of training indices that differs from the number of
\* scaling coefficients, vary_gamma_fix_bin_widths fails with the assertion
\* error before any model is built or restored and before a matrix exists.
C3_MismatchFailsFirst ==
    (Len(args.idxs_training) # Len(args.gammas_scaling)) =>
        /\ pc \in {"vg_begin", "raised"}
        /\ (pc = "raised" => raised = <<"AssertionError">>)
        /\ graph = {}
        /\ sess = {}
        /\ rate = <<>>
        /\ psnr = <<>>
        /\ saved = {}

\* two training indices against one scaling coefficient: the call has failed
C3_Witness ==
    /\ Len(args.idxs_training) = 2
    /\ Len(args.gammas_scaling) = 1
    /\ pc = "raised"
    /\ raised = <<"AssertionError">>
    /\ driver_pc = "aborted"

\* ------------------------------------------------ what the cells hold
Written(mat, a, b) == mat[a][b] # <<>>

Value(cell) == cell[Len(cell)]

RowFull(a) == \A b \in 1..nb_images : Written(rate, a, b) /\ Written(psnr, a, b)

RowEmpty(a) == \A b \in 1..nb_images : ~Written(rate, a, b) /\ ~Written(psnr, a, b)

\* the component whose failure left the sweep function
FailStep == IF Len(raised) >= 2 THEN raised[2] ELSE ""

InImageLoop == {"vg_rate", "vg_psnr", "vg_export", "fg_rate", "fg_psnr", "fg_export"}

AfterRate == {"vg_psnr", "vg_export", "fg_psnr", "fg_export"}

AfterPsnr == {"vg_export", "fg_export"}

\* C4, as the spec states it: when a sweep has stopped, by a return or by a
\* failure, each configuration's row is fully written or not written at all.
C4_AtomicRows ==
    (pc \in {"idle", "raised"}) =>
        \A a \in DOMAIN rate : RowFull(a) \/ RowEmpty(a)

\* C4, amended: the cells are written one at a time.  After a return every
\* row is fully written.  After a failure the rows before the configuration
\* in progress are fully written, the rows after it are unwritten, and its
\* own row holds the cells of the images before the failing one, with the
\* rate (and the PSNR) of the failing image when it failed after storing it.
C4_PrefixRows ==
    /\ (pc = "idle") => \A a \in DOMAIN rate : RowFull(a)
    /\ (pc = "raised") =>
           \A a \in DOMAIN rate : \A b \in 1..nb_images :
               /\ Written(rate, a, b) <=>
                      \/ a < i
                      \/ a = i /\ FailStep \in InImageLoop
                               /\ (b < j \/ (b = j /\ FailStep \in AfterRate))
               /\ Written(psnr, a, b) <=>
                      \/ a < i
                      \/ a = i /\ FailStep \in InImageLoop
                               /\ (b < j \/ (b = j /\ FailStep \in AfterPsnr))

\* the PSNR of the second image of the second multiplier failed: the row
\* holds the first image's cells and the second image's rate only
C4_Witness ==
    /\ pc = "raised"
    /\ raised = <<"Error", "fg_psnr">>
    /\ i = 2
    /\ j = 2
    /\ Written(rate, 2, 1) /\ Written(psnr, 2, 1)
    /\ Written(rate, 2, 2) /\ ~Written(psnr, 2, 2)

\* C5, as the spec states it: a failure at configuration i aborts that
\* configuration only: the exception names the configuration and image
\* indices, and the caller is still running and can go on with the sweep.
C5_OnlyConfigAborted ==
    (pc = "raised" /\ raised[1] = "Error") =>
        /\ driver_pc # "aborted"
        /\ Len(raised) = 4
        /\ raised[3] = i
        /\ raised[4] = j

\* C5, amended: a failure at configuration i aborts the whole sweep and the
\* run.  Nothing is retried and no later configuration is processed: no step
\* follows the failure and the rows after i stay unwritten.  The exception is
\* the component's own, with no indices attached, and the driver ends on it.
C5_FailureAbortsSweep ==
    (pc = "raised") =>
        /\ driver_pc = "aborted"
        /\ ~ENABLED Next
        /\ Len(raised) <= 2
        /\ \A a \in DOMAIN rate : a > i => RowEmpty(a)

\* the checkpoint of the first of two scaling coefficients cannot be restored
C5_Witness ==
    /\ pc = "raised"
    /\ raised = <<"Error", "vg_open_enc">>
    /\ i = 1
    /\ Len(args.gammas_scaling) = 2
    /\ RowEmpty(2)

Complete(mat) ==
    \A a \in DOMAIN mat :
        /\ DOMAIN mat[a] = 1..nb_images
        /\ \A b \in DOMAIN mat[a] : Len(mat[a][b]) = 1

\* the sweeps in the driver's order, and how many have returned
SweepsReturned ==
    IF driver_pc \in {"call_vary", "in_vary", "save_vary"} THEN 0
    ELSE IF driver_pc \in {"call_fix_learn", "in_fix_learn", "save_fix_learn"} THEN 1
    ELSE IF driver_pc \in {"call_fix_fix", "in_fix_fix", "save_fix_fix"} THEN 2
    ELSE IF driver_pc = "done" THEN 3
    ELSE IF raised = <<"AssertionError">> \/ Len(args.gammas_scaling) > 0
              \/ args.bin_width_init = 0 THEN 0
    ELSE IF FailStep \in {"vg_create_enc", "vg_open_enc", "vg_encode", "vg_open_dec",
                          "vg_decode", "vg_rate", "vg_psnr", "vg_export"} THEN 0
    ELSE IF args.are_bin_widths_learned THEN 1 ELSE 2

FileNo(file) ==
    IF file[1] = "vary_gamma_fix_bin_widths" THEN 1
    ELSE IF file[1] = "fix_gamma_learn_bin_widths" THEN 2 ELSE 3

\* C6: the driver saves the matrices of a sweep only after the sweep function
\* has returned: every saved matrix is fully written, each cell once, and the
\* saved files are those of the sweeps that returned before the one that is
\* running, has failed or is about to be saved.
C6_SavedAfterReturn ==
    /\ \A f \in saved : Complete(f.rate) /\ Complete(f.psnr)
    /\ \A f \in saved : FileNo(f.file) <= SweepsReturned
    /\ (driver_pc \in {"call_fix_learn", "call_fix_fix", "done"}) =>
           {FileNo(f.file) : f \in saved} = 1..SweepsReturned

\* the first fix_gamma sweep failed with a half-filled matrix after the
\* matrices of vary_gamma_fix_bin_widths were saved
C6_Witness ==
    /\ pc = "raised"
    /\ raised = <<"Error", "fg_export">>
    /\ args.are_bin_widths_learned
    /\ Written(rate, 1, 1)
    /\ nb_images = 2
    /\ {f.file : f \in saved} = {<<"vary_gamma_fix_bin_widths">>}

\* C7: no cell is ever stored to twice, and when a sweep over N
\* configurations and M images has returned, its two matrices have the cells
\* [1..N][1..M] and each of them was stored to exactly once.
C7_EachCellOnce ==
    /\ \A a \in DOMAIN rate : \A b \in DOMAIN rate[a] :
           Len(rate[a][b]) <= 1 /\ Len(psnr[a][b]) <= 1
    /\ (driver_pc \in {"save_vary", "save_fix_learn", "save_fix_fix"}) =>
           LET N == IF driver_pc = "save_vary" THEN Len(args.gammas_scaling)
                                                ELSE Len(args.multipliers)
           IN  /\ DOMAIN rate = 1..N
               /\ DOMAIN psnr = 1..N
               /\ \A a \in 1..N :
                      /\ DOMAIN rate[a] = 1..nb_images
                      /\ DOMAIN psnr[a] = 1..nb_images
                      /\ \A b \in 1..nb_images :
                             Len(rate[a][b]) = 1 /\ Len(psnr[a][b]) = 1

\* a sweep over two multipliers and two images has returned
C7_Witness ==
    /\ driver_pc = "save_fix_fix"
    /\ Len(args.multipliers) = 2
    /\ nb_images = 2
    /\ Len(rate[2][2]) = 1
    /\ Len(psnr[2][2]) = 1

\* ------------------------------------------ the store to a matrix cell
StoreDim == 2
MaxStores == 2
StoreValues == {1, 2}

\* the two matrices of a sweep over StoreDim configurations and images
StoreInit ==
    /\ driver_pc = "in_vary"
    /\ code_lossless = FALSE
    /\ reference_uint8 = Images(StoreDim)
    /\ saved = {}
    /\ pc = "vg_psnr"
    /\ raised = <<>>
    /\ graph = {}
    /\ sess = {}
    /\ args = NoArgs
    /\ loc = NoLocals
    /\ rate = Zeros(StoreDim, StoreDim)
    /\ psnr = Zeros(StoreDim, StoreDim)
    /\ i = 1
    /\ j = 1
    /\ rate_calls = <<>>

\* the statements rate[i, j] = v and psnr[i, j] = w of lines 192-199 and
\* 345-350, at any cell
Record ==
    /\ \E a \in 1..StoreDim, b \in 1..StoreDim, v \in StoreValues, w \in StoreValues :
        /\ Len(rate[a][b]) < MaxStores
        /\ rate' = SetItem(rate, a, b, v)
        /\ psnr' = SetItem(psnr, a, b, w)
        /\ i' = a
        /\ j' = b
    /\ UNCHANGED <<driver_pc, env, pc, raised, graph, sess, args, loc>>

StoreNext == Record

StoreSpec == StoreInit /\ [][StoreNext]_vars

IsVary == Len(args.gammas_scaling) > 0

RowCkpt(a) ==
    IF IsVary
    THEN Ckpt(FALSE, args.bin_width_init, args.gammas_scaling[a], args.idxs_training[a])
    ELSE Ckpt(args.are_bin_widths_learned, args.bin_width_init, args.gamma_scaling,
              args.idx_training)

RowBinWidths(a) ==
    IF IsVary THEN get_bin_widths(RowCkpt(a))
    ELSE [c \in Maps |-> args.multipliers[a] * get_bin_widths(RowCkpt(a))[c]]

RowLatent(a) == encode_mini_batches(RowCkpt(a), reference_uint8)

RowCentered(a) ==
    [b \in 1..nb_images |-> [c \in Maps |-> RowLatent(a)[b][c] - map_mean(RowCkpt(a))[c]]]

RowCenteredQuantized(a) == quantize_per_map(RowCentered(a), RowBinWidths(a))

RowOffCentered(a) ==
    [b \in 1..nb_images |->
        [c \in Maps |-> RowCenteredQuantized(a)[b][c] + map_mean(RowCkpt(a))[c]]]

RowUncenteredQuantized(a) == quantize_per_map(RowLatent(a), RowBinWidths(a))

\* the quantized tensor and the bin widths the rate estimator was called with
RateCall(cell) == IF Value(cell)[1] = "div" THEN Value(cell)[2] ELSE Value(cell)

RateTensor(cell) == RateCall(cell)[2]

RateBinWidths(cell) == RateCall(cell)[3]

\* the tensor the decoder was fed for the image of a PSNR cell
DecoderInput(cell) == Value(cell)[3][2][3]

\* C9, as the spec states it: in both sweep modes the rate estimator receives
\* the latent centered by the per-channel mean and quantized with the
\* configuration's bin widths, and the decoder receives that tensor with the
\* mean added back.
C9_CenteredInBothModes ==
    \A a \in DOMAIN rate : \A b \in 1..nb_images :
        /\ Written(rate, a, b) => RateTensor(rate[a][b]) = RowCenteredQuantized(a)[b]
        /\ Written(psnr, a, b) => DecoderInput(psnr[a][b]) = RowOffCentered(a)[b]

\* C9, amended: in fix_gamma the rate estimator receives the centered
\* quantized latent and the decoder that tensor with the mean added back; in
\* vary_gamma_fix_bin_widths no mean is subtracted or added: the latent is
\* quantized as it is, with the checkpoint's bin widths, and both the rate
\* estimator and the decoder receive that tensor.
C9_CenteredInFixGammaOnly ==
    \A a \in DOMAIN rate : \A b \in 1..nb_images :
        /\ Written(rate, a, b) =>
               /\ RateBinWidths(rate[a][b]) = RowBinWidths(a)
               /\ RateTensor(rate[a][b]) =
                      IF IsVary THEN RowUncenteredQuantized(a)[b]
                                ELSE RowCenteredQuantized(a)[b]
        /\ Written(psnr, a, b) =>
               DecoderInput(psnr[a][b]) =
                   IF IsVary THEN RowUncenteredQuantized(a)[b]
                             ELSE RowOffCentered(a)[b]

\* a cell of vary_gamma_fix_bin_widths whose decoder input is not the
\* centered quantized latent with the mean added back
C9_Witness ==
    /\ IsVary
    /\ pc = "vg_export"
    /\ Written(rate, i, j)
    /\ Written(psnr, i, j)
    /\ DecoderInput(psnr[i][j]) # RowOffCentered(i)[j]
    /\ RateTensor(rate[i][j]) # RowCenteredQuantized(i)[j]

\* C10: in fix_gamma row a is computed with the end-of-training bin widths
\* times multipliers[a], and the rows are filled in the order of the list: a
\* row has a written cell only when every row before it is fully written.
C10_RowsFollowMultipliers ==
    (~IsVary) =>
        \A a \in DOMAIN rate : \A b \in 1..nb_images :
            /\ Written(rate, a, b) =>
                   /\ RateBinWidths(rate[a][b]) =
                          [c \in Maps |-> args.multipliers[a]
                                            * get_bin_widths(loc.ckpt)[c]]
                   /\ RateTensor(rate[a][b]) =
                          quantize_per_map(loc.centered_y_float32,
                              [c \in Maps |-> args.multipliers[a]
                                                * get_bin_widths(loc.ckpt)[c]])[b]
                   /\ \A a2 \in 1..(a - 1) : RowFull(a2)
            /\ Written(psnr, a, b) =>
                   DecoderInput(psnr[a][b]) = RowOffCentered(a)[b]

\* the sweep over the multipliers 2 then 1 of the learned bin widths returned
C10_Witness ==
    /\ driver_pc = "save_fix_learn"
    /\ args.multipliers = <<2, 1>>
    /\ RowFull(1)
    /\ RowFull(2)
    /\ RateBinWidths(rate[1][1]) # RateBinWidths(rate[2][1])

\* --------------------------------------------- the calls of a sweep
\* the calls made for image b of configuration a
CallsFor(a, b) == {k \in DOMAIN rate_calls : rate_calls[k].i = a /\ rate_calls[k].j = b}

\* the call of the entropy coder that the spec describes for a cell
CoderCall(a, b) ==
    rescale_compress_lossless_maps(
        RowCenteredQuantized(a)[b], RowBinWidths(a),
        <<"binary_probabilities", RowCkpt(a), args.multipliers[a]>>,
        <<"idx_map_exception", RowCkpt(a)>>)

\* the position of the pair (a, b) in the order of the two loops
PairNo(a, b) == (a - 1) * nb_images + b

\* C11: in a lossless fix_gamma sweep the entropy coder is called once for
\* each pair of a configuration and an image, in the order of the loops and
\* never twice for a pair; each call gets the centered quantized latent of
\* that one image, with the test bin widths, the probabilities of the
\* multiplier and the exception indices; the rate stored in a cell is the
\* bit count of the cell's call divided by h_in*w_in; and when the sweep has
\* returned there is exactly one call for each cell.
C11_CoderOncePerImage ==
    (~IsVary /\ args.is_lossless) =>
        /\ \A k \in DOMAIN rate_calls :
               /\ rate_calls[k].i \in DOMAIN args.multipliers
               /\ rate_calls[k].j \in 1..nb_images
               /\ PairNo(rate_calls[k].i, rate_calls[k].j) = k
               /\ rate_calls[k].call = CoderCall(rate_calls[k].i, rate_calls[k].j)
        /\ \A a \in DOMAIN rate : \A b \in 1..nb_images :
               /\ Cardinality(CallsFor(a, b)) <= 1
               /\ Written(rate, a, b) =>
                      /\ Cardinality(CallsFor(a, b)) = 1
                      /\ rate[a][b] = <<LosslessRate(CoderCall(a, b))>>
                      /\ Value(rate[a][b]) = <<"div", CoderCall(a, b), "h_in*w_in">>
        /\ (driver_pc \in {"save_fix_learn", "save_fix_fix"}) =>
               Len(rate_calls) = Len(args.multipliers) * nb_images

\* a lossless sweep over two multipliers and two images has returned, after
\* four calls of the coder
C11_Witness ==
    /\ driver_pc = "save_fix_learn"
    /\ args.is_lossless
    /\ Len(args.multipliers) = 2
    /\ nb_images = 2
    /\ Len(rate_calls) = 4
    /\ rate_calls[4].call[1] = "rescale_compress_lossless_maps"
    /\ Value(rate[2][2])[1] = "div"

\* the estimator a sweep has selected: the entropy coder in a fix_gamma call
\* with is_lossless, rate_3d in every other call
SelectedEstimator ==
    IF ~IsVary /\ args.is_lossless THEN "rescale_compress_lossless_maps" ELSE "rate_3d"

\* the estimator that computed the value of a rate cell
EstimatorOf(cell) == RateCall(cell)[1]

\* C12: the estimator is the same for a whole sweep: every call a sweep makes
\* is a call of the estimator its flag selects, every rate cell holds a value
\* of that estimator (divided by the image size exactly when it is a bit
\* count), a pair of a configuration and an image gets one call at most,
\* and when the estimator has failed for an image its cell is left unwritten
\* and no call of the other estimator was made.
C12_NoFallback ==
    /\ \A k \in DOMAIN rate_calls : rate_calls[k].call[1] = SelectedEstimator
    /\ \A a \in DOMAIN rate : \A b \in 1..nb_images :
           /\ Cardinality(CallsFor(a, b)) <= 1
           /\ Written(rate, a, b) =>
                  /\ EstimatorOf(rate[a][b]) = SelectedEstimator
                  /\ (Value(rate[a][b])[1] = "div") <=> (~IsVary /\ args.is_lossless)
    /\ (pc = "raised" /\ FailStep \in {"vg_rate", "fg_rate"}) =>
           /\ ~Written(rate, i, j)
           /\ rate_calls # <<>>
           /\ rate_calls[Len(rate_calls)].i = i
           /\ rate_calls[Len(rate_calls)].j = j
           /\ rate_calls[Len(rate_calls)].call[1] = SelectedEstimator

\* the entropy coder failed for the second image of a lossless sweep, after
\* the first image's rate was recorded
C12_Witness ==
    /\ pc = "raised"
    /\ raised = <<"Error", "fg_rate">>
    /\ args.is_lossless
    /\ i = 1
    /\ j = 2
    /\ Written(rate, 1, 1)
    /\ ~Written(rate, 1, 2)
    /\ Len(rate_calls) = 2

\* ------------------------------------ the quantization of lines 163-171
\* the latent values, means and bin widths the quantization is applied to,
\* in units of 0.5
QuantLatents == -3..3
QuantMeans == {0, 1}
QuantBinWidths == 1..3

\* the latent of one image, the mean of each map and a test bin width for
\* each map, before line 163
QuantInit ==
    /\ driver_pc = "in_fix_fix"
    /\ code_lossless = FALSE
    /\ reference_uint8 = Images(1)
    /\ saved = {}
    /\ pc = "q_center"
    /\ raised = <<>>
    /\ graph = {}
    /\ sess = {}
    /\ args = NoArgs
    /\ \E y \in [Maps -> QuantLatents], mean \in [Maps -> QuantMeans],
          bw \in [Maps -> QuantBinWidths] :
        loc = [NoLocals EXCEPT !.y_float32 = <<y>>,
                               !.tiled_map_mean = tile_map_mean(mean, 1),
                               !.bin_widths_test = bw]
    /\ rate = <<>>
    /\ psnr = <<>>
    /\ i = 1
    /\ j = 0
    /\ rate_calls = <<>>

\* line 163, applied in the second pass to the off-centered quantized latent
\* of the first
Q_Center ==
    /\ pc = "q_center"
    /\ loc' = [loc EXCEPT !.centered_y_float32 =
                  Sub(IF i = 1 THEN loc.y_float32 ELSE loc.quantized_y_float32,
                      loc.tiled_map_mean)]
    /\ pc' = "q_quantize"
    /\ UNCHANGED <<driver_pc, env, raised, graph, sess, args, matrices, i, j>>

\* lines 170-171
Q_Quantize ==
    /\ pc = "q_quantize"
    /\ LET cq == quantize_per_map(loc.centered_y_float32, loc.bin_widths_test)
       IN  loc' = [loc EXCEPT
                      !.centered_quantized_y_float32 = cq,
                      !.off_centered_quantized_y_float32 = Add(cq, loc.tiled_map_mean)]
    /\ pc' = IF i = 1 THEN "q_again" ELSE "q_done"
    /\ UNCHANGED <<driver_pc, env, raised, graph, sess, args, matrices, i, j>>

\* the off-centered quantized latent is kept and goes through lines 163-171
\* a second time
Q_Again ==
    /\ pc = "q_again"
    /\ loc' = [loc EXCEPT !.quantized_y_float32 = loc.off_centered_quantized_y_float32]
    /\ i' = 2
    /\ pc' = "q_center"
    /\ UNCHANGED <<driver_pc, env, raised, graph, sess, args, matrices, j>>

QuantNext ==
    \/ Q_Center
    \/ Q_Quantize
    \/ Q_Again

QuantSpec == QuantInit /\ [][QuantNext]_vars

\* C13: the off-centered quantized latent is a fixed point of the
\* quantization: with the mean subtracted, quantized again with the same bin
\* widths and the mean added back, each of its values is unchanged, and so
\* is the centered quantized latent.
C13_QuantizationIdempotent ==
    (pc = "q_done") =>
        /\ loc.off_centered_quantized_y_float32 = loc.quantized_y_float32
        /\ loc.centered_quantized_y_float32 = loc.centered_y_float32

\* the second pass is done on a latent whose first map was a tie below zero,
\* -1.5 bin widths, and was moved by the first pass
C13_Witness ==
    /\ pc = "q_done"
    /\ i = 2
    /\ loc.y_float32[1][1] = -2
    /\ loc.tiled_map_mean[1][1] = 1
    /\ loc.bin_widths_test[1] = 2
    /\ loc.off_centered_quantized_y_float32[1][1] = -3
    /\ loc.off_centered_quantized_y_float32 # loc.y_float32

\* ------------------------------------------------ the order of the steps
Running == pc \notin {"idle", "raised"}

\* the sweep is at configuration a
AtConfig(a) == Running /\ i = a /\ a \in DOMAIN rate

RateComputed(a) == \E b \in 1..nb_images : CallsFor(a, b) # {}

\* C14, as the spec states it: for each configuration the rate is computed
\* before the decoder is acquired, and the decoder is released before the
\* distortion is scored and the results are recorded: while the decoder's
\* session is open at a configuration, the rate of each of its images has been
\* computed, and no PSNR is recorded while a decoder is resident.
C14_SpecOrder ==
    /\ \A a \in DOMAIN rate :
           (AtConfig(a) /\ "IsolatedDecoder" \in sess) =>
               \A b \in 1..nb_images : CallsFor(a, b) # {}
    /\ \A a \in DOMAIN psnr : \A b \in 1..nb_images :
           (Running /\ Written(psnr, a, b)) => "IsolatedDecoder" \notin Resident

\* C14, amended.  In vary_gamma_fix_bin_widths each configuration goes:
\* encoder acquired, encoding, encoder released, quantization, decoder
\* session opened, reconstruction, decoder released, and then for each image
\* in turn rate, PSNR, both recorded at once: while the decoder's session is
\* open the latent is quantized with the configuration's bin widths, no
\* encoder is resident and no rate of the configuration is computed, and
\* once a rate of the configuration is computed nothing is resident and the
\* reconstruction of the configuration is there.  In fix_gamma the encoder
\* is acquired and released once before the first configuration and the
\* decoder is acquired once before it and released after the last: at every
\* configuration the decoder alone is resident, with its session open, the
\* latent is that of the single encoding, and once a rate of the
\* configuration is computed its quantization and its reconstruction are
\* there.  In both, the rate of an image is computed before its PSNR, and
\* the PSNR of an image before the rate of the next.
C14_CodeOrder ==
    \A a \in DOMAIN rate :
        /\ (IsVary /\ AtConfig(a) /\ "IsolatedDecoder" \in sess) =>
               /\ loc.quantized_y_float32 = RowUncenteredQuantized(a)
               /\ "EntropyAutoencoder" \notin Resident
               /\ ~RateComputed(a)
        /\ (IsVary /\ AtConfig(a) /\ RateComputed(a)) =>
               /\ Resident = {}
               /\ loc.quantized_y_float32 = RowUncenteredQuantized(a)
               /\ loc.reconstruction_uint8 =
                      cast_bt601(Decode(RowCkpt(a), RowUncenteredQuantized(a)))
        /\ (~IsVary /\ AtConfig(a)) =>
               /\ Resident = {"IsolatedDecoder"}
               /\ sess = {"IsolatedDecoder"}
               /\ loc.y_float32 = RowLatent(a)
               /\ RateComputed(a) =>
                      /\ loc.centered_quantized_y_float32 = RowCenteredQuantized(a)
                      /\ loc.reconstruction_uint8 =
                             cast_bt601(Decode(RowCkpt(a), RowOffCentered(a)))
        /\ \A b \in 1..nb_images :
               /\ Written(psnr, a, b) => Written(rate, a, b)
               /\ (b > 1 /\ CallsFor(a, b) # {}) => Written(psnr, a, b - 1)
               /\ CallsFor(a, b) # {} => \A a2 \in 1..(a - 1) : RowFull(a2)

\* the rate of the first image of the second scaling coefficient is being
\* recorded: the decoder was released and the reconstruction is kept
C14_Witness ==
    /\ IsVary
    /\ pc = "vg_psnr"
    /\ i = 2
    /\ j = 1
    /\ RateComputed(2)
    /\ Resident = {}
    /\ loc.reconstruction_uint8 # <<>>
    /\ RowFull(1)

\* ------------------------------------- what a fix_gamma row depends on
\* the running call, or the one that failed, is a call of fix_gamma
IsFix == args.idx_training # 0

\* the single checkpoint of a fix_gamma call
FixCkpt ==
    Ckpt(args.are_bin_widths_learned, args.bin_width_init, args.gamma_scaling,
         args.idx_training)

FixMean == [b \in 1..nb_images |-> map_mean(FixCkpt)]

FixCentered ==
    [b \in 1..nb_images |->
        [c \in Maps |-> encode_mini_batches(FixCkpt, reference_uint8)[b][c]
                           - map_mean(FixCkpt)[c]]]

\* the rate and the PSNR of image b for a multiplier, from the inputs of the
\* call and that multiplier alone
FixBinWidths(multiplier) == [c \in Maps |-> multiplier * get_bin_widths(FixCkpt)[c]]

FixQuantized(multiplier) == quantize_per_map(FixCentered, FixBinWidths(multiplier))

FixRate(multiplier, b) ==
    IF args.is_lossless
    THEN <<"div",
           rescale_compress_lossless_maps(
               FixQuantized(multiplier)[b], FixBinWidths(multiplier),
               <<"binary_probabilities", FixCkpt, multiplier>>,
               <<"idx_map_exception", FixCkpt>>),
           "h_in*w_in">>
    ELSE rate_3d(FixQuantized(multiplier)[b], FixBinWidths(multiplier))

FixPsnr(multiplier, b) ==
    psnr_2d(reference_uint8[b],
            cast_bt601(Decode(FixCkpt,
                [b2 \in 1..nb_images |->
                    [c \in Maps |-> FixQuantized(multiplier)[b2][c]
                                       + map_mean(FixCkpt)[c]]]))[b])

\* C15: in fix_gamma, from the first iteration on and whatever iterations
\* have run, the latent, the tiled mean, the centered latent and the
\* end-of-training bin widths are the ones computed before the loop from the
\* single checkpoint; and each value recorded in row a is the one computed
\* from the inputs of the call and multipliers[a] alone, whatever the other
\* multipliers of the list are and wherever it stands in the list.
C15_IterationFrame ==
    (IsFix /\ i >= 1) =>
        /\ loc.y_float32 = encode_mini_batches(FixCkpt, reference_uint8)
        /\ loc.tiled_map_mean = FixMean
        /\ loc.centered_y_float32 = FixCentered
        /\ loc.bin_widths = get_bin_widths(FixCkpt)
        /\ \A a \in DOMAIN rate : \A b \in 1..nb_images :
               /\ Written(rate, a, b) =>
                      Value(rate[a][b]) = FixRate(args.multipliers[a], b)
               /\ Written(psnr, a, b) =>
                      Value(psnr[a][b]) = FixPsnr(args.multipliers[a], b)

\* the second iteration of a sweep over the multipliers 2 and 2 has
\* quantized: the latent and the bin widths are still those of before the loop
C15_Witness ==
    /\ IsFix
    /\ pc = "fg_decode"
    /\ i = 2
    /\ args.multipliers = <<2, 2>>
    /\ RowFull(1)
    /\ loc.bin_widths_test # loc.bin_widths
    /\ loc.centered_quantized_y_float32 # loc.centered_y_float32

\* ------------------------------------------- the checkpoint of a cell
\* the checkpoint the decoder that reconstructed the image of a PSNR cell
\* was restored from
DecoderCkpt(cell) == Value(cell)[3][2][2]

\* C16: the encoder, the bin widths and the decoder of a cell are those of
\* one checkpoint, the one of the cell's configuration: a resident model is
\* restored from the checkpoint of the configuration in progress; the tensor
\* a rate is computed from is the quantization of the latent that
\* checkpoint's encoder gives, with that checkpoint's bin widths (times the
\* multiplier in fix_gamma), and, in lossless mode, with the probabilities
\* and exception indices of that checkpoint; and the PSNR is that of the
\* reconstruction by that checkpoint's decoder from the same tensor.
C16_OneCheckpointPerCell ==
    /\ \A mdl \in graph : mdl.restored # <<>> => mdl.restored[1] = loc.ckpt
    /\ \A a \in DOMAIN rate :
           /\ (AtConfig(a) /\ Resident # {}) => loc.ckpt = RowCkpt(a)
           /\ \A b \in 1..nb_images :
                  /\ Written(rate, a, b) =>
                         /\ RateTensor(rate[a][b]) =
                                IF IsVary
                                THEN quantize_per_map(
                                         encode_mini_batches(RowCkpt(a), reference_uint8),
                                         get_bin_widths(RowCkpt(a)))[b]
                                ELSE RowCenteredQuantized(a)[b]
                         /\ RateBinWidths(rate[a][b]) =
                                IF IsVary THEN get_bin_widths(RowCkpt(a))
                                          ELSE BinWidthsTest(args.multipliers[a],
                                                             get_bin_widths(RowCkpt(a)))
                         /\ (EstimatorOf(rate[a][b]) = "rescale_compress_lossless_maps") =>
                                /\ RateCall(rate[a][b])[4][2] = RowCkpt(a)
                                /\ RateCall(rate[a][b])[5][2] = RowCkpt(a)
                  /\ Written(psnr, a, b) =>
                         /\ DecoderCkpt(psnr[a][b]) = RowCkpt(a)
                         /\ DecoderInput(psnr[a][b]) =
                                IF IsVary THEN RowUncenteredQuantized(a)[b]
                                          ELSE RowOffCentered(a)[b]

\* the rows of two scaling coefficients are written, each with the decoder
\* of its own checkpoint
C16_Witness ==
    /\ IsVary
    /\ args.gammas_scaling = <<10000, 12000>>
    /\ pc = "vg_export"
    /\ i = 2
    /\ j = 1
    /\ Written(psnr, 1, 1)
    /\ Written(psnr, 2, 1)
    /\ DecoderCkpt(psnr[1][1]).gamma_scaling = 10000
    /\ DecoderCkpt(psnr[2][1]).gamma_scaling = 12000
    /\ RateTensor(rate[1][1]) # RateTensor(rate[2][1])

====
